---- MODULE Spec2Model ----
(***************************************************************************)
(* rjson: a JSON re-formatter.  main() feeds the input text to a parser,   *)
(* whose callbacks (reader_cb) build a json_data tree through              *)
(* json_data_state::insert; on a successful parse generate_json walks the  *)
(* tree and emits it through the generator.                                *)
(*                                                                         *)
(* The tree lives in a heap of json_data nodes.  A pointer is the index of *)
(* a node in the heap, nullptr is 0.  Nodes are never freed or moved       *)
(* (std::list and std::unordered_map are node-stable), so an index stays   *)
(* valid once handed out.                                                  *)
(***************************************************************************)
EXTENDS Integers, Sequences, FiniteSets, TLC

\* ------------------------------------------------------------------ bounds
\* The number of json_data nodes one run may construct.
MaxNodes == 3

\* The same when the callbacks are driven by every sequence of events.
MaxAnyNodes == 2

\* The generator may report an error at any of its first MaxGenCalls + 1
\* calls, or at none.
MaxGenCalls == 3

\* The bound on pending calls of generate_json a guarded walk would keep
\* to, taken below the nesting MaxNodes allows.
WalkDepthLimit == 2

\* ------------------------------------------------------------ value model
nullptr == 0

\* enum json_type
json_type_null == "null"
json_type_boolean == "boolean"
json_type_integer == "integer"
json_type_real == "real"
json_type_string == "string"
json_type_map == "map"
json_type_array == "array"

ContainerTypes == {json_type_map, json_type_array}

\* The object keys the parser may deliver.
Keys == {"k", "a"}

\* std::unordered_map<std::string, json_data> with no element.
EmptyMap == [key \in {} |-> nullptr]

\* struct json_data: the tag and the union's members.  val is the payload
\* of boolean (0/1), integer (the value) and real (the double, written in
\* tenths: 15 is 1.5); string, array (the std::list) and map (the
\* std::unordered_map) are the other members, the containers holding
\* pointers to their elements.  A member that is not the active one is
\* left at its empty value.
json_data(t, v, s) ==
    [type |-> t, val |-> v, string |-> s, array |-> <<>>, map |-> EmptyMap]

\* The scalar events the parser can deliver, as the json_data each of the
\* five scalar callbacks constructs.
ScalarArgs ==
    { json_data(json_type_null, 0, ""),
      json_data(json_type_boolean, 1, ""),
      json_data(json_type_integer, 1, ""),
      json_data(json_type_integer, 2, ""),
      json_data(json_type_real, 15, ""),
      json_data(json_type_string, 0, "k") }

\* ------------------------------------------------------- json_data_state
\* struct json_data_state {stack, tempKey, root} together with the heap its
\* pointers point into.  The top of the stack is the last element.
json_data_state(s, k, r, h) ==
    [stack |-> s, tempKey |-> k, root |-> r, heap |-> h]

top(s) == s[Len(s)]

pop(s) == SubSeq(s, 1, Len(s) - 1)

\* emplace_back as emplace_front: the new element goes first.
emplace_front(st, current, node) ==
    LET p == Len(st.heap) + 1
        h == Append(st.heap, node)
    IN  [st  |-> [st EXCEPT !.heap =
                    [h EXCEPT ![current].array = <<p>> \o @]],
         ret |-> p]

\* current->array.emplace_back(args...); return &current->array.back();
emplace_back(st, current, node) ==
    LET p == Len(st.heap) + 1
        h == Append(st.heap, node)
    IN  [st  |-> [st EXCEPT !.heap =
                    [h EXCEPT ![current].array = Append(@, p)]],
         ret |-> p]

\* current->map.emplace(piecewise_construct, tempKey, args...);
\* return &current->map.at(tempKey);
\* std::unordered_map::emplace inserts only when no element has the key; the
\* pointer returned is to the element now stored under tempKey either way.
map_emplace(st, current, node) ==
    LET m == st.heap[current].map
        p == Len(st.heap) + 1
        h == Append(st.heap, node)
    IN  IF st.tempKey \in DOMAIN m
        THEN [st |-> st, ret |-> m[st.tempKey]]
        ELSE [st  |-> [st EXCEPT !.heap =
                         [h EXCEPT ![current].map =
                            [key \in DOMAIN m \cup {st.tempKey} |->
                               IF key = st.tempKey THEN p ELSE m[key]]]],
              ret |-> p]

\* insert making the new value the root whenever no container is open.
insert_replacing_root(st, node) ==
    IF st.root = nullptr \/ st.stack = <<>>
    THEN [st  |-> [st EXCEPT !.root = Len(st.heap) + 1,
                             !.heap = Append(st.heap, node)],
          ret |-> Len(st.heap) + 1]
    ELSE LET current == top(st.stack)
         IN  IF st.heap[current].type = json_type_array
             THEN emplace_back(st, current, node)
             ELSE IF st.heap[current].type = json_type_map
             THEN map_emplace(st, current, node)
             ELSE [st |-> st, ret |-> nullptr]

\* json_data *json_data_state::insert(Args&&... args)
insert(st, node) ==
    IF st.root = nullptr
    THEN [st  |-> [st EXCEPT !.root = Len(st.heap) + 1,
                             !.heap = Append(st.heap, node)],
          ret |-> Len(st.heap) + 1]
    ELSE IF st.stack = <<>>
    THEN [st |-> st, ret |-> nullptr]
    ELSE LET current == top(st.stack)
         IN  IF st.heap[current].type = json_type_array
             THEN emplace_back(st, current, node)
             ELSE IF st.heap[current].type = json_type_map
             THEN map_emplace(st, current, node)
             ELSE [st |-> st, ret |-> nullptr]

\* --------------------------------------------------------------- reader_cb
\* Each callback as a function of the builder state: the state it leaves,
\* the int it returns to the parser (0 cancels the parse) and jdata, the
\* pointer insert returned to it (nullptr where insert is not called).

\* read null / boolean / integer / double / string
cb_scalar(st, node) ==
    LET r == insert(st, node)
    IN  [st |-> r.st, ret |-> IF r.ret # nullptr THEN 1 ELSE 0,
         jdata |-> r.ret]

\* start map / start array that never pushes.
cb_start_no_push(st, t) ==
    LET r == insert(st, json_data(t, 0, ""))
    IN  [st |-> r.st, ret |-> IF r.ret # nullptr THEN 1 ELSE 0,
         jdata |-> r.ret]

\* start map / start array pushing before it looks at the pointer.
cb_start_push_first(st, t) ==
    LET r == insert(st, json_data(t, 0, ""))
    IN  [st |-> [r.st EXCEPT !.stack = Append(@, r.ret)],
         ret |-> IF r.ret # nullptr THEN 1 ELSE 0, jdata |-> r.ret]

\* start map / start array: insert the container and push the pointer insert
\* returned.
cb_start(st, t) ==
    LET r == insert(st, json_data(t, 0, ""))
    IN  IF r.ret = nullptr
        THEN [st |-> r.st, ret |-> 0, jdata |-> r.ret]
        ELSE [st |-> [r.st EXCEPT !.stack = Append(@, r.ret)], ret |-> 1,
              jdata |-> r.ret]

\* start map
cb_start_map(st) == cb_start(st, json_type_map)

\* start array
cb_start_array(st) == cb_start(st, json_type_array)

\* map key
cb_map_key(st, key) ==
    [st |-> [st EXCEPT !.tempKey = key], ret |-> 1, jdata |-> nullptr]

\* end map clearing the key buffer as well.
cb_end_map_clear_key(st) ==
    [st |-> [st EXCEPT !.stack = pop(@), !.tempKey = ""], ret |-> 1,
     jdata |-> nullptr]

\* end map without the pop.
cb_end_map_no_pop(st) ==
    [st |-> st, ret |-> 1, jdata |-> nullptr]

\* end map: state->stack.pop(), defined for a non-empty stack
cb_end_map(st) ==
    [st |-> [st EXCEPT !.stack = pop(@)], ret |-> 1, jdata |-> nullptr]

\* end array forgetting the root when it closes the last open container.
cb_end_array_reset(st) ==
    [st |-> [st EXCEPT !.stack = pop(@),
                       !.root = IF Len(st.stack) = 1 THEN nullptr ELSE @],
     ret |-> 1, jdata |-> nullptr]

\* end array: state->stack.pop(), defined for a non-empty stack
cb_end_array(st) ==
    [st |-> [st EXCEPT !.stack = pop(@)], ret |-> 1, jdata |-> nullptr]

\* ------------------------------------------------------------------- state
VARIABLES
    stack,      \* json_data_state::stack, top last
    tempKey,    \* json_data_state::tempKey
    root,       \* json_data_state::root
    heap,       \* the json_data nodes constructed so far
    pc,         \* where main() is: "parse", "open", "generate", "write",
                \* "done" (return 0), "failed" (return 1), "crashed"
    status,     \* the parser's status: "ok", "client_canceled", "error"
    pstack,     \* the parser's own nesting: the kinds of its open containers
    pkey,       \* the parser has read a key of its innermost map and now
                \* expects that member's value
    pdone,      \* the parser has read the whole top-level value
    gen,        \* the generator's buffer: the primitives emitted, in order
    gstatus,    \* the yajl_gen_status generate_json(gen, state.root) returned
    deepest,    \* history: the most calls of generate_json pending at once
    sink,       \* what fwrite has written to the output file
    walks,      \* history: the number of calls generate_json(gen, state.root)
    ev,         \* history: the last callback, its result and insert's pointer
    made,       \* history: each node as its constructor made it
    arrived,    \* history: per array, the pointers insert returned for the
                \* value events accepted while the array was the stack top
    pending,    \* history: per node, the keys delivered while the node was
                \* the stack top and not yet followed by a value event there
    begun       \* history: the Begin events accepted less the End events
                \* delivered; -1 once an End found the stack empty

builder == <<stack, tempKey, root, heap>>
parser == <<pstack, pkey, pdone>>
output == <<gen, gstatus, deepest, sink, walks>>
history == <<ev, made, arrived, pending, begun>>
vars == <<stack, tempKey, root, heap, pc, status, pstack, pkey, pdone,
          gen, gstatus, deepest, sink, walks, ev, made, arrived, pending,
          begun>>

\* The builder state as the struct the callbacks receive through ctx.
state == json_data_state(stack, tempKey, root, heap)

\* json_data_state state = {{}, "", nullptr}; yajl_alloc; status = ok
Init ==
    /\ stack = <<>>
    /\ tempKey = ""
    /\ root = nullptr
    /\ heap = <<>>
    /\ pc = "parse"
    /\ status = "ok"
    /\ pstack = <<>>
    /\ pkey = FALSE
    /\ pdone = FALSE
    /\ gen = <<>>
    /\ gstatus = "ok"
    /\ deepest = 0
    /\ sink = <<>>
    /\ walks = 0
    /\ ev = [cb |-> "none", ret |-> 1, jdata |-> nullptr]
    /\ made = <<>>
    /\ arrived = <<>>
    /\ pending = <<>>
    /\ begun = 0

\* The handle on top of the stack, nullptr when the stack is empty.
topOrNull(s) == IF s = <<>> THEN nullptr ELSE top(s)

\* The history after a callback that called insert: a node constructed by
\* the call is recorded as made, the pointer returned is recorded against
\* the array that was the stack top, and the pending key of the node that
\* was the stack top is used up.
AfterInsert(name, r, node) ==
    LET cur == topOrNull(stack)
        grown == Len(r.st.heap) > Len(heap)
        ext(f, x) == IF grown THEN Append(f, x) ELSE f
    IN  /\ ev' = [cb |-> name, ret |-> r.ret, jdata |-> r.jdata]
        /\ made' = ext(made, node)
        /\ arrived' = ext([p \in DOMAIN arrived |->
                            IF p = cur /\ r.ret = 1
                               /\ heap[p].type = json_type_array
                            THEN Append(arrived[p], r.jdata) ELSE arrived[p]],
                          <<>>)
        /\ pending' = ext([p \in DOMAIN pending |->
                            IF p = cur /\ r.ret = 1
                            THEN {} ELSE pending[p]],
                          {})
        /\ begun' = IF name \in {"start_map", "start_array"} /\ r.ret = 1
                       /\ begun >= 0
                    THEN begun + 1 ELSE begun

\* The builder state a callback leaves, and what returning 0 does to the
\* parse: the parser stops with yajl_status_client_canceled.
Callback(r) ==
    /\ Len(r.st.heap) <= MaxNodes
    /\ stack' = r.st.stack
    /\ tempKey' = r.st.tempKey
    /\ root' = r.st.root
    /\ heap' = r.st.heap
    /\ status' = IF r.ret = 1 THEN "ok" ELSE "client_canceled"
    /\ UNCHANGED <<pc, output>>

\* read null / read boolean / read integer / read double / read string
ReadScalar(node) ==
    LET r == cb_scalar(state, node)
    IN  Callback(r) /\ AfterInsert("scalar", r, node)

\* start map
StartMap ==
    LET r == cb_start_map(state)
    IN  Callback(r) /\ AfterInsert("start_map", r, json_data(json_type_map, 0, ""))

\* start array
StartArray ==
    LET r == cb_start_array(state)
    IN  Callback(r)
        /\ AfterInsert("start_array", r, json_data(json_type_array, 0, ""))

\* map key
MapKey(key) ==
    LET r == cb_map_key(state, key)
    IN  /\ Callback(r)
        /\ ev' = [cb |-> "map_key", ret |-> r.ret, jdata |-> nullptr]
        /\ pending' = [p \in DOMAIN pending |->
                         IF p = topOrNull(stack) THEN {key} ELSE pending[p]]
        /\ UNCHANGED <<made, arrived, begun>>

\* end map, on a non-empty stack
EndMap ==
    LET r == cb_end_map(state)
    IN  /\ stack # <<>>
        /\ Callback(r)
        /\ ev' = [cb |-> "end_map", ret |-> r.ret, jdata |-> nullptr]
        /\ begun' = (IF begun >= 0 THEN begun - 1 ELSE begun)
        /\ UNCHANGED <<made, arrived, pending>>

\* end array, on a non-empty stack
EndArray ==
    LET r == cb_end_array(state)
    IN  /\ stack # <<>>
        /\ Callback(r)
        /\ ev' = [cb |-> "end_array", ret |-> r.ret, jdata |-> nullptr]
        /\ begun' = (IF begun >= 0 THEN begun - 1 ELSE begun)
        /\ UNCHANGED <<made, arrived, pending>>

\* ------------------------------------------------------------ event source
\* The parser reads one JSON text and calls the callbacks in the order of
\* the JSON grammar: one top-level value; inside a map a key before each
\* value; a container is closed by the end of its own kind.  ps is its
\* position in the grammar, [pstack, pkey, pdone].
parser_state(s, k, d) == [pstack |-> s, pkey |-> k, pdone |-> d]

ps == parser_state(pstack, pkey, pdone)

value_allowed(q) ==
    /\ ~q.pdone
    /\ IF q.pstack = <<>> THEN TRUE
       ELSE IF top(q.pstack) = json_type_array THEN TRUE
       ELSE q.pkey

key_allowed(q) ==
    q.pstack # <<>> /\ top(q.pstack) = json_type_map /\ ~q.pkey

end_allowed(q, t) ==
    q.pstack # <<>> /\ top(q.pstack) = t /\ ~q.pkey

after_scalar(q) == parser_state(q.pstack, FALSE, q.pstack = <<>>)

after_start(q, t) == parser_state(Append(q.pstack, t), FALSE, FALSE)

after_key(q) == parser_state(q.pstack, TRUE, FALSE)

after_end(q) ==
    parser_state(pop(q.pstack), FALSE, pop(q.pstack) = <<>>)

\* The parser moves on in the grammar when the callback returned 1 and
\* stops where it is when the callback cancelled the parse.
Advance(q) ==
    /\ pstack' = IF status' = "ok" THEN q.pstack ELSE pstack
    /\ pkey' = IF status' = "ok" THEN q.pkey ELSE pkey
    /\ pdone' = IF status' = "ok" THEN q.pdone ELSE pdone

\* yajl_parse(hand, buf.data(), fullSize): the next token of the text is a
\* scalar where the grammar allows a value.
ParseScalar ==
    /\ pc = "parse" /\ status = "ok" /\ value_allowed(ps)
    /\ \E node \in ScalarArgs : ReadScalar(node)
    /\ Advance(after_scalar(ps))

\* the next token is '{' where the grammar allows a value
ParseStartMap ==
    /\ pc = "parse" /\ status = "ok" /\ value_allowed(ps)
    /\ StartMap
    /\ Advance(after_start(ps, json_type_map))

\* the next token is '[' where the grammar allows a value
ParseStartArray ==
    /\ pc = "parse" /\ status = "ok" /\ value_allowed(ps)
    /\ StartArray
    /\ Advance(after_start(ps, json_type_array))

\* the next token is a string where the grammar allows a key
ParseMapKey ==
    /\ pc = "parse" /\ status = "ok" /\ key_allowed(ps)
    /\ \E key \in Keys : MapKey(key)
    /\ Advance(after_key(ps))

\* the next token is '}' closing the parser's innermost map
ParseEndMap ==
    /\ pc = "parse" /\ status = "ok" /\ end_allowed(ps, json_type_map)
    /\ EndMap
    /\ Advance(after_end(ps))

\* the next token is ']' closing the parser's innermost array
ParseEndArray ==
    /\ pc = "parse" /\ status = "ok" /\ end_allowed(ps, json_type_array)
    /\ EndArray
    /\ Advance(after_end(ps))

\* the next token is one the grammar does not allow here: the parser calls
\* no callback, yajl_complete_parse reports the error and main returns 1
ParseError ==
    /\ pc = "parse" /\ status = "ok"
    /\ status' = "error"
    /\ pc' = "failed"
    /\ UNCHANGED <<builder, parser, output, history>>

\* ---------------------------------------------------------------- main()
\* status = yajl_complete_parse(hand): ok only when no error was met, no
\* callback cancelled and the text held a whole top-level value.
yajl_complete_parse(st, q) ==
    IF st = "ok" /\ q.pdone THEN "ok" ELSE "error"

\* main without the check of status.
parse_failed_never(st) == FALSE

\* if (status != yajl_status_ok) { ...; return 1; }
parse_failed(st) == st # "ok"

\* yajl_parse; status = yajl_complete_parse(hand); the check of status
CompleteParse ==
    /\ pc = "parse"
    /\ status' = yajl_complete_parse(status, ps)
    /\ pc' = IF parse_failed(status') THEN "failed" ELSE "open"
    /\ UNCHANGED <<builder, parser, output, history>>

\* f = fopen(output, "wb"); if (f == NULL) { perror; return 1; }
OpenOutput ==
    /\ pc = "open"
    /\ \E f \in {"NULL", "FILE"} :
          pc' = IF f = "NULL" THEN "failed" ELSE "generate"
    /\ UNCHANGED <<builder, status, parser, output, history>>

\* ---------------------------------------------------------- generate_json
\* A call of the generator: yajl_gen_null, yajl_gen_bool, yajl_gen_integer,
\* yajl_gen_double, yajl_gen_string, yajl_gen_map_open/close,
\* yajl_gen_array_open/close, with its argument.
prim(op, v, s) == [op |-> op, val |-> v, string |-> s]

\* yajl_gen gen: the buffer, and left, the number of calls that succeed
\* before one reports an error (-1: every call succeeds).  status is the
\* yajl_gen_status of the last call; depth and deepest count the calls of
\* generate_json now pending and the most there were.
yajl_gen_alloc(left) ==
    [buf |-> <<>>, left |-> left, status |-> "ok", depth |-> 0,
     deepest |-> 0]

\* One call yajl_gen_*(gen, ...): it appends its primitive and returns
\* yajl_gen_status_ok, or appends nothing and returns another status; once
\* a call has failed the generator is in its error state.
yajl_gen(g, p) ==
    IF g.status # "ok" \/ g.left = 0
    THEN [g EXCEPT !.status = "error", !.left = 0]
    ELSE [g EXCEPT !.buf = Append(@, p),
                   !.left = IF @ > 0 THEN @ - 1 ELSE @]

\* A call of generate_json begins / returns.
enter(g) ==
    [g EXCEPT !.depth = @ + 1,
              !.deepest = IF g.depth + 1 > @ THEN g.depth + 1 ELSE @]

leave(g) == [g EXCEPT !.depth = @ - 1]

\* The orders in which a range-for may enumerate an unordered_map with the
\* keys S.
Orders(S) ==
    {o \in [1..Cardinality(S) -> S] :
        \A i, j \in 1..Cardinality(S) : o[i] = o[j] => i = j}

RECURSIVE generate_json(_, _, _), generate_array(_, _, _),
          generate_map(_, _, _, _)

\* generate_array walking the vector from its back.
generate_array_reversed(h, items, g) ==
    IF items = <<>> THEN {g}
    ELSE UNION {IF g1.status # "ok" THEN {g1}
                ELSE generate_json(h, Head(items), g1) :
                   g1 \in generate_array(h, Tail(items), g)}

\* for (const auto &item: root->array)
\*     { status = generate_json(gen, &item); if (status != ok) return status; }
generate_array(h, items, g) ==
    IF items = <<>> THEN {g}
    ELSE UNION {IF g1.status # "ok" THEN {g1}
                ELSE generate_array(h, Tail(items), g1) :
                   g1 \in generate_json(h, Head(items), g)}

\* generate_map without the yajl_gen_string of item.first.
generate_map_no_key(h, m, order, g) ==
    IF order = <<>> THEN {g}
    ELSE UNION {IF g2.status # "ok" THEN {g2}
                ELSE generate_map(h, m, Tail(order), g2) :
                   g2 \in generate_json(h, m[Head(order)], g)}

\* for (const auto &item: root->map)
\*     { status = yajl_gen_string(item.first); if (status != ok) return status;
\*       status = generate_json(gen, &item.second);
\*       if (status != ok) return status; }
generate_map(h, m, order, g) ==
    IF order = <<>> THEN {g}
    ELSE LET g1 == yajl_gen(g, prim("string", 0, Head(order)))
         IN  IF g1.status # "ok" THEN {g1}
             ELSE UNION {IF g2.status # "ok" THEN {g2}
                         ELSE generate_map(h, m, Tail(order), g2) :
                            g2 \in generate_json(h, m[Head(order)], g1)}

\* The close of a container, reached only when its loop met no error.
generate_close(g, p) ==
    IF g.status # "ok" THEN g ELSE yajl_gen(g, p)

\* generate_json(gen, root): the generator states the walk of the node at p
\* can leave, one for each enumeration order of the maps.
generate_json(h, p, g) ==
    LET n == h[p]
        g0 == enter(g)
        opened == yajl_gen(g0, prim(IF n.type = json_type_map
                                    THEN "map_open" ELSE "array_open", 0, ""))
    IN  CASE n.type = json_type_boolean ->
               {leave(yajl_gen(g0, prim("bool", n.val, "")))}
          [] n.type = json_type_integer ->
               {leave(yajl_gen(g0, prim("integer", n.val, "")))}
          [] n.type = json_type_real ->
               {leave(yajl_gen(g0, prim("double", n.val, "")))}
          [] n.type = json_type_string ->
               {leave(yajl_gen(g0, prim("string", 0, n.string)))}
          [] n.type = json_type_map ->
               IF opened.status # "ok" THEN {leave(opened)}
               ELSE {leave(generate_close(g1, prim("map_close", 0, ""))) :
                       g1 \in UNION {generate_map(h, n.map, o, opened) :
                                       o \in Orders(DOMAIN n.map)}}
          [] n.type = json_type_array ->
               IF opened.status # "ok" THEN {leave(opened)}
               ELSE {leave(generate_close(g1, prim("array_close", 0, ""))) :
                       g1 \in generate_array(h, n.array, opened)}
          [] OTHER -> {leave(yajl_gen(g0, prim("null", 0, "")))}

\* yajl_gen_alloc; yajl_gen_config; generate_json(gen, state.root); the
\* status returned is not looked at.
Generate ==
    /\ pc = "generate"
    /\ root # nullptr
    /\ \E left \in -1..MaxGenCalls :
          \E g \in generate_json(heap, root, yajl_gen_alloc(left)) :
             /\ gen' = g.buf
             /\ gstatus' = g.status
             /\ deepest' = g.deepest
    /\ walks' = walks + 1
    /\ pc' = "write"
    /\ UNCHANGED <<builder, status, parser, sink, history>>

\* yajl_gen_get_buf(gen, &genbuf, &gensize); fwrite(genbuf, 1, gensize, f);
\* return 0;
Write ==
    /\ pc = "write"
    /\ sink' = sink \o gen
    /\ pc' = "done"
    /\ UNCHANGED <<builder, status, parser, gen, gstatus, deepest, walks,
                   history>>

Next ==
    \/ ParseScalar
    \/ ParseStartMap
    \/ ParseStartArray
    \/ ParseMapKey
    \/ ParseEndMap
    \/ ParseEndArray
    \/ ParseError
    \/ CompleteParse
    \/ OpenOutput
    \/ Generate
    \/ Write

Spec == Init /\ [][Next]_vars

\* ------------------------------------------------- the callbacks alone
\* reader_cb is a table of functions any caller may invoke in any order.
\* SpecAnyEvents drives the callbacks with every sequence of events, also
\* those no JSON text produces, until one of them cancels.

\* state->stack.pop() on an empty std::stack is undefined: the run may
\* crash, or go on with the callback returning 1.
PopEmpty(name) ==
    /\ stack = <<>>
    /\ \/ pc' = "crashed" /\ UNCHANGED <<status, ev, begun>>
       \/ /\ pc' = pc
          /\ status' = "ok"
          /\ ev' = [cb |-> name, ret |-> 1, jdata |-> nullptr]
          /\ begun' = -1
    /\ UNCHANGED <<builder, parser, output, made, arrived, pending>>

AnyScalar ==
    /\ pc = "parse" /\ status = "ok"
    /\ \E node \in ScalarArgs : ReadScalar(node)
    /\ Len(heap') <= MaxAnyNodes
    /\ UNCHANGED parser

AnyStartMap ==
    /\ pc = "parse" /\ status = "ok"
    /\ StartMap
    /\ Len(heap') <= MaxAnyNodes
    /\ UNCHANGED parser

AnyStartArray ==
    /\ pc = "parse" /\ status = "ok"
    /\ StartArray
    /\ Len(heap') <= MaxAnyNodes
    /\ UNCHANGED parser

AnyMapKey ==
    /\ pc = "parse" /\ status = "ok"
    /\ \E key \in Keys : MapKey(key)
    /\ UNCHANGED parser

AnyEndMap ==
    /\ pc = "parse" /\ status = "ok"
    /\ \/ EndMap /\ UNCHANGED parser
       \/ PopEmpty("end_map")

AnyEndArray ==
    /\ pc = "parse" /\ status = "ok"
    /\ \/ EndArray /\ UNCHANGED parser
       \/ PopEmpty("end_array")

NextAnyEvents ==
    \/ AnyScalar
    \/ AnyStartMap
    \/ AnyStartArray
    \/ AnyMapKey
    \/ AnyEndMap
    \/ AnyEndArray

SpecAnyEvents == Init /\ [][NextAnyEvents]_vars

\* ------------------------------------------------- reading the output back
\* The tree as a value: each node with its elements in place of the
\* pointers to them.  Two maps are equal when they hold equal values under
\* the same keys, whatever order they enumerate them in.
RECURSIVE Value(_, _)
Value(h, p) ==
    LET n == h[p]
    IN  [type |-> n.type, val |-> n.val, string |-> n.string,
         array |-> [i \in 1..Len(n.array) |-> Value(h, n.array[i])],
         map |-> [key \in DOMAIN n.map |-> Value(h, n.map[key])]]

\* The callback a parser makes for a scalar the generator wrote.
scalar_read(t) ==
    CASE t.op = "bool" ->
           json_data(json_type_boolean, IF t.val # 0 THEN 1 ELSE 0, "")
      [] t.op = "integer" -> json_data(json_type_integer, t.val, "")
      [] t.op = "double" -> json_data(json_type_real, t.val, "")
      [] t.op = "string" -> json_data(json_type_string, 0, t.string)
      [] OTHER -> json_data(json_type_null, 0, "")

\* A run of the parser with fresh builder state.
parse_begin ==
    [st |-> json_data_state(<<>>, "", nullptr, <<>>),
     q |-> parser_state(<<>>, FALSE, FALSE),
     status |-> "ok"]

\* The callback returned r; q2 is the parser's position after the token.
parse_called(run, r, q2) ==
    IF r.ret = 1
    THEN [st |-> r.st, q |-> q2, status |-> "ok"]
    ELSE [st |-> r.st, q |-> run.q, status |-> "client_canceled"]

parse_error(run) == [run EXCEPT !.status = "error"]

\* The parser reads the token the generator wrote for t: a string is a key
\* where the grammar allows a key and a value elsewhere.
parse_token(run, t) ==
    IF run.status # "ok" THEN run
    ELSE IF t.op = "string" /\ key_allowed(run.q)
    THEN parse_called(run, cb_map_key(run.st, t.string), after_key(run.q))
    ELSE IF t.op \in {"null", "bool", "integer", "double", "string"}
    THEN IF value_allowed(run.q)
         THEN parse_called(run, cb_scalar(run.st, scalar_read(t)),
                           after_scalar(run.q))
         ELSE parse_error(run)
    ELSE IF t.op = "map_open"
    THEN IF value_allowed(run.q)
         THEN parse_called(run, cb_start_map(run.st),
                           after_start(run.q, json_type_map))
         ELSE parse_error(run)
    ELSE IF t.op = "array_open"
    THEN IF value_allowed(run.q)
         THEN parse_called(run, cb_start_array(run.st),
                           after_start(run.q, json_type_array))
         ELSE parse_error(run)
    ELSE IF t.op = "map_close"
    THEN IF end_allowed(run.q, json_type_map)
         THEN parse_called(run, cb_end_map(run.st), after_end(run.q))
         ELSE parse_error(run)
    ELSE IF end_allowed(run.q, json_type_array)
         THEN parse_called(run, cb_end_array(run.st), after_end(run.q))
         ELSE parse_error(run)

RECURSIVE parse_tokens(_, _)
parse_tokens(run, text) ==
    IF text = <<>> THEN run
    ELSE parse_tokens(parse_token(run, Head(text)), Tail(text))

\* A second run of the program on what the first wrote: the builder state
\* and the status yajl_complete_parse reports.
Reparse(text) ==
    LET run == parse_tokens(parse_begin, text)
    IN  [st |-> run.st, status |-> yajl_complete_parse(run.status, run.q)]

\* ================================================================= claims
\* A step from pc = "parse" to pc = "parse" that changes the state is one
\* callback, and ev' describes it.
CallbackStep == pc = "parse" /\ pc' = "parse"

ValueCallbacks == {"scalar", "start_map", "start_array"}

\* A value event (scalar, BeginObject, BeginArray) that the callback accepts.
AcceptedValueStep ==
    CallbackStep /\ ev'.cb \in ValueCallbacks /\ ev'.ret = 1

\* The node p holds exactly what the constructor made.
AsMade(h, m, p) ==
    /\ h[p].type = m[p].type
    /\ h[p].val = m[p].val
    /\ h[p].string = m[p].string

\* C1: duplicate Object keys are last-write-wins.  Whenever a value event is
\* accepted while the stack top is an Object that already has a member under
\* the buffered key, the Object afterwards has the same keys, and the member
\* under that key is the Value made by this event, not the earlier one.
C1_DuplicateKeyLastWriteWins ==
    [][ (/\ AcceptedValueStep
         /\ stack # <<>>
         /\ heap[top(stack)].type = json_type_map
         /\ tempKey \in DOMAIN heap[top(stack)].map)
        => LET o == top(stack)
               n == heap'[o].map[tempKey]
           IN  /\ DOMAIN heap'[o].map = DOMAIN heap[o].map
               /\ n # heap[o].map[tempKey]
               /\ n = Len(heap) + 1
               /\ Len(heap') = Len(heap) + 1
               /\ AsMade(heap', made', n) ]_vars

C3_ArrayOrderIsArrivalOrder ==
    \A p \in DOMAIN heap :
        heap[p].type = json_type_array =>
            /\ heap[p].array = arrived[p]
            /\ \A i \in DOMAIN heap[p].array :
                  AsMade(heap, made, heap[p].array[i])

\* C3's case: an array that took two different values, and the run went on.
C3_Witness ==
    \E p \in DOMAIN heap :
        /\ heap[p].type = json_type_array
        /\ Len(arrived[p]) = 2
        /\ heap[arrived[p][1]].type # heap[arrived[p][2]].type
        /\ pc = "done"

\* The kind of container an end callback closes.
Closes(cb) == IF cb = "end_map" THEN json_type_map ELSE json_type_array

\* C4: an EndObject or EndArray event is accepted only when the stack is
\* non-empty and its top is a container of the matching kind, and then
\* exactly one handle is popped.
C4_EndOnlyOnMatchingTop ==
    [][ (CallbackStep /\ ev'.cb \in {"end_map", "end_array"} /\ ev'.ret = 1)
        => /\ stack # <<>>
           /\ heap[top(stack)].type = Closes(ev'.cb)
           /\ stack' = pop(stack) ]_vars

\* C5: an ObjectKey event is accepted only when the top of the stack is an
\* Object, and the key buffer then holds the delivered key.
C5_KeyOnlyOnObject ==
    [][ (CallbackStep /\ ev'.cb = "map_key" /\ ev'.ret = 1)
        => /\ stack # <<>>
           /\ heap[top(stack)].type = json_type_map
           /\ pending'[top(stack)] = {tempKey'} ]_vars

\* C6: the key buffer is consumed on use.  A value event accepted while the
\* stack top is an Object is stored under a key that an ObjectKey event
\* delivered for that Object after the previous insertion into it.
C6_KeyConsumedOnUse ==
    [][ (/\ AcceptedValueStep
         /\ stack # <<>>
         /\ heap[top(stack)].type = json_type_map)
        => pending[top(stack)] = {tempKey} ]_vars

\* C7: a value event that arrives when the root is set and the stack is
\* empty is rejected: the callback returns 0, which cancels the parse, the
\* root is not replaced and nothing is added to the tree.
C7_SecondTopLevelValueRejected ==
    [][ (/\ CallbackStep
         /\ ev'.cb \in ValueCallbacks
         /\ root # nullptr
         /\ stack = <<>>)
        => /\ ev'.ret = 0
           /\ status' = "client_canceled"
           /\ UNCHANGED builder ]_vars

\* C7's case: a value event was rejected after the root container had been
\* closed.
C7_Witness ==
    /\ root # nullptr
    /\ heap[root].type \in ContainerTypes
    /\ stack = <<>>
    /\ ev.cb \in ValueCallbacks
    /\ ev.ret = 0
    /\ status = "client_canceled"

\* C8: when the event sequence has ended, the run goes on to the output
\* only if the stack is empty and the root is set; with a container open or
\* no root it has failed, and generate_json is never called without a root.
C8_EndOfSequence ==
    /\ pc \in {"open", "generate", "write", "done"} =>
          status = "ok" /\ stack = <<>> /\ root # nullptr
    /\ (pc # "parse" /\ (stack # <<>> \/ root = nullptr)) =>
          pc = "failed" /\ status # "ok" /\ sink = <<>>
    /\ walks > 0 => root # nullptr

\* C8's case: the text ended right after a key, and the run failed.
C8_Witness ==
    /\ pc = "failed"
    /\ status = "error"
    /\ ev.cb = "map_key"
    /\ stack # <<>>
    /\ pkey

\* C9: no partial result.  generate_json is called at most once and only
\* after a parse that ended ok; no callback changes the builder once the
\* parse has ended or a callback has cancelled it; a run whose parse did not
\* end ok writes nothing.
C9_NoPartialResult ==
    /\ [](/\ walks <= 1
          /\ (walks > 0 \/ gen # <<>> \/ sink # <<>>) =>
                status = "ok" /\ pc \in {"write", "done"}
          /\ pc = "done" => walks = 1 /\ sink = gen
          /\ (status # "ok" \/ pc = "failed") => sink = <<>>)
    /\ [][ (pc # "parse" \/ status # "ok") => UNCHANGED builder ]_vars

\* C9's case: a callback rejected an event after part of the tree had been
\* built, and the run ended.
C9_Witness ==
    /\ pc = "failed"
    /\ ev.ret = 0
    /\ Len(heap) > 1
    /\ sink = <<>>

\* C10: after an accepted BeginObject/BeginArray event a newly made empty
\* container of the matching kind has been inserted at the insertion target,
\* the stack has grown by one, and its new top is that new container.
C10_BeginPushesNewContainer ==
    [][ (CallbackStep /\ ev'.cb \in {"start_map", "start_array"}
            /\ ev'.ret = 1)
        => LET n == Len(heap) + 1
           IN  /\ Len(heap') = n
               /\ heap'[n] = json_data(IF ev'.cb = "start_map"
                                       THEN json_type_map
                                       ELSE json_type_array, 0, "")
               /\ stack' = Append(stack, n)
               /\ IF stack = <<>> THEN root' = n
                  ELSE IF heap[top(stack)].type = json_type_array
                  THEN heap'[top(stack)].array
                          = Append(heap[top(stack)].array, n)
                  ELSE /\ heap[top(stack)].type = json_type_map
                       /\ heap'[top(stack)].map[tempKey] = n ]_vars

\* ------------------------------------------------------------------ C11
Opens == {"map_open", "array_open"}

Closers == {"map_close", "array_close"}

\* The position in s of the close that matches an open d levels up, looking
\* from position i on; 0 when there is none.
RECURSIVE MatchingClose(_, _, _)
MatchingClose(s, i, d) ==
    IF i > Len(s) THEN 0
    ELSE IF s[i].op \in Opens THEN MatchingClose(s, i + 1, d + 1)
    ELSE IF s[i].op \in Closers
         THEN IF d = 1 THEN i ELSE MatchingClose(s, i + 1, d - 1)
    ELSE MatchingClose(s, i + 1, d)

\* The length of the rendering s begins with: one primitive, or an open up
\* to its matching close; 0 when s begins with none.
FirstRendering(s) ==
    IF s = <<>> \/ Head(s).op \in Closers THEN 0
    ELSE IF Head(s).op \in Opens THEN MatchingClose(s, 2, 1)
    ELSE 1

\* The one primitive of a scalar node: its own kind, carrying its payload.
ScalarPrimitive(n) ==
    CASE n.type = json_type_boolean -> prim("bool", n.val, "")
      [] n.type = json_type_integer -> prim("integer", n.val, "")
      [] n.type = json_type_real -> prim("double", n.val, "")
      [] n.type = json_type_string -> prim("string", 0, n.string)
      [] OTHER -> prim("null", 0, "")

RECURSIVE Renders(_, _, _), RendersElements(_, _, _),
          RendersMembers(_, _, _, _)

\* s is, in stored order, one rendering of each node of items.
RendersElements(h, items, s) ==
    IF items = <<>> THEN s = <<>>
    ELSE LET n == FirstRendering(s)
         IN  /\ n > 0
             /\ Renders(h, Head(items), SubSeq(s, 1, n))
             /\ RendersElements(h, Tail(items), SubSeq(s, n + 1, Len(s)))

\* s is, for each key in keys, exactly one emission of the key immediately
\* followed by the rendering of the member under it.
RendersMembers(h, m, keys, s) ==
    IF s = <<>> THEN keys = {}
    ELSE LET n == FirstRendering(Tail(s))
         IN  /\ Head(s).op = "string"
             /\ Head(s).string \in keys
             /\ n > 0
             /\ Renders(h, m[Head(s).string], SubSeq(s, 2, n + 1))
             /\ RendersMembers(h, m, keys \ {Head(s).string},
                               SubSeq(s, n + 2, Len(s)))

\* s is the rendering of the node at p.
Renders(h, p, s) ==
    LET n == h[p]
        inner == SubSeq(s, 2, Len(s) - 1)
    IN  IF n.type = json_type_array
        THEN /\ Len(s) >= 2
             /\ s[1].op = "array_open"
             /\ s[Len(s)].op = "array_close"
             /\ RendersElements(h, n.array, inner)
        ELSE IF n.type = json_type_map
        THEN /\ Len(s) >= 2
             /\ s[1].op = "map_open"
             /\ s[Len(s)].op = "map_close"
             /\ RendersMembers(h, n.map, DOMAIN n.map, inner)
        ELSE s = <<ScalarPrimitive(n)>>

\* Every close in s closes the innermost container still open, of its own
\* kind, and none is left open; open lists the kinds now open.
RECURSIVE WellBracketed(_, _)
WellBracketed(s, open) ==
    IF s = <<>> THEN open = <<>>
    ELSE IF Head(s).op = "map_open"
         THEN WellBracketed(Tail(s), Append(open, "map"))
    ELSE IF Head(s).op = "array_open"
         THEN WellBracketed(Tail(s), Append(open, "array"))
    ELSE IF Head(s).op \in Closers
         THEN /\ open # <<>>
              /\ Head(s).op = (IF top(open) = "map" THEN "map_close"
                               ELSE "array_close")
              /\ WellBracketed(Tail(s), pop(open))
    ELSE WellBracketed(Tail(s), open)

\* C11: the serializer renders every node exactly once.  When a walk has
\* returned with no generator call failing, the emitted sequence is: for an
\* array, open, each element's rendering in stored order, close; for a map,
\* open, for each member exactly one key immediately followed by that
\* member's rendering, close; for a scalar, the one primitive of its kind
\* with its payload.  The sequence is well bracketed.
C11_RendersEachNodeOnce ==
    (pc \in {"write", "done"} /\ gstatus = "ok") =>
        /\ Renders(heap, root, gen)
        /\ WellBracketed(gen, <<>>)

\* A walk has rendered a map holding an array that holds a scalar.
C11_Witness ==
    /\ pc = "write"
    /\ gstatus = "ok"
    /\ heap[root].type = json_type_map
    /\ \E key \in DOMAIN heap[root].map :
          LET a == heap[heap[root].map[key]]
          IN  /\ a.type = json_type_array
              /\ a.array # <<>>
              /\ heap[a.array[1]].type \notin ContainerTypes

\* ------------------------------------------------------------------ C12
\* C12: every error reaches the caller and none is silently recovered.
\* When a generator call made by the walk has reported a status other than
\* ok, the walk has returned that status and main does not go on as after a
\* successful walk: nothing is written to the output file and the run does
\* not end as a success.  When a callback has rejected an event, the run is
\* a failed build: it never opens the output file.
C12_ErrorsReachTheCaller ==
    /\ gstatus # "ok" => (sink = <<>> /\ pc # "done")
    /\ status # "ok" => pc \in {"parse", "failed"}

\* ------------------------------------------------------------------ C13
\* C13: the root is set at most once.  A value event that finds no root is
\* accepted and makes the value it constructs the root; once the root is set
\* no event, accepted or rejected, makes it another node or nullptr.
C13_RootSetAtMostOnce ==
    [][ /\ root # nullptr => root' = root
        /\ (CallbackStep /\ ev'.cb \in ValueCallbacks /\ root = nullptr) =>
              /\ ev'.ret = 1
              /\ root' = Len(heap) + 1
              /\ Len(heap') = Len(heap) + 1 ]_vars

\* The root is still the first value, after a second value was put under
\* it and its container was closed.
C13_Witness ==
    /\ root = 1
    /\ Len(heap) = 2
    /\ stack = <<>>
    /\ ev.cb \in {"end_map", "end_array"}

\* ------------------------------------------------------------------ C14
\* The places of the tree that hold a pointer to p: an index of an array or
\* a key of a map, each with the container it is in.
Parents(h, p) ==
    UNION {{<<q, i>> : i \in {j \in DOMAIN h[q].array : h[q].array[j] = p}}
           \cup {<<q, key>> :
                   key \in {k \in DOMAIN h[q].map : h[q].map[k] = p}} :
             q \in DOMAIN h}

Children(h, q) ==
    {h[q].array[i] : i \in DOMAIN h[q].array}
        \cup {h[q].map[key] : key \in DOMAIN h[q].map}

\* The nodes reached from those of S in at most n steps down the tree.
RECURSIVE Below(_, _, _)
Below(h, S, n) ==
    IF n = 0 THEN S
    ELSE Below(h, S \cup UNION {Children(h, q) : q \in S}, n - 1)

Descendants(h, p) == Below(h, Children(h, p), Len(h))

\* h is a tree with the one root r, or empty with no root.
IsTree(h, r) ==
    /\ (r = nullptr) <=> (h = <<>>)
    /\ \A p \in DOMAIN h :
          /\ Cardinality(Parents(h, p)) = (IF p = r THEN 0 ELSE 1)
          /\ p \notin Descendants(h, p)
          /\ Children(h, p) # {} => h[p].type \in ContainerTypes

\* C14: after any sequence of events the built structure is a tree with
\* exactly one root.  Every node other than the root is held in exactly one
\* place of exactly one container, the root in none, and no node is reached
\* from itself; an event puts into a container only the node it
\* constructs, so the places holding a node that already exists never
\* change.
C14_TreeWithOneRoot ==
    [][ /\ IsTree(heap', root')
        /\ \A p \in DOMAIN heap : Parents(heap', p) = Parents(heap, p) ]_vars

\* A tree of two nodes whose scalar member is on the stack, as after a
\* start map or start array under the key the member is under.
C14_Witness ==
    /\ Len(heap) = 2
    /\ heap[root].type = json_type_map
    /\ stack = <<1, 2>>
    /\ heap[2].type \notin ContainerTypes

\* ------------------------------------------------------------------ C15
\* C15: the calls of generate_json pending at once do not grow with the
\* nesting depth of the tree without limit.  A walk that has returned either
\* never had more than WalkDepthLimit calls pending, or it returned a status
\* other than ok.
C15_PendingWalksBounded ==
    (pc \in {"write", "done"} /\ deepest > WalkDepthLimit) => gstatus # "ok"

\* ------------------------------------------------------------------ C16
\* C16: every pointer on the stack is to an array or a map; a scalar is
\* never the node insert is to store into, also after value events under a
\* key the map on the stack top already holds.
C16_StackHoldsContainers ==
    \A i \in DOMAIN stack : heap[stack[i]].type \in ContainerTypes

\* ------------------------------------------------------------------ C17
\* C17: while no more End events than Begin events have been delivered, the
\* stack is a path in the tree.  A non-empty stack means the root is set,
\* its bottom pointer is the root, each pointer above is to a child of the
\* node the pointer below it is to, and the stack holds as many pointers as
\* Begin events were accepted less End events delivered.
C17_StackIsPath ==
    begun >= 0 =>
        /\ stack # <<>> => (root # nullptr /\ stack[1] = root)
        /\ \A i \in 1..(Len(stack) - 1) :
              stack[i + 1] \in Children(heap, stack[i])
        /\ Len(stack) = begun

\* Two containers are open, the inner one a child of the root, after an
\* earlier container was opened and closed.
C17_Witness ==
    /\ Len(stack) = 2
    /\ begun = 2
    /\ Len(heap) = 3
    /\ stack[2] = 3
    /\ heap[2].type \in ContainerTypes

\* ------------------------------------------------------------------ C18
\* C18: a rejected value event leaves the builder state unchanged.  When the
\* callback of a value event returns 0, insert had found the root set and
\* either the stack empty or its top not a container, and the root, the
\* stack, the key buffer and every node of the tree are as before the event;
\* for a start map or start array nothing has been pushed.
C18_RejectedEventChangesNothing ==
    [][ (CallbackStep /\ ev'.cb \in ValueCallbacks /\ ev'.ret = 0) =>
            /\ root # nullptr
            /\ \/ stack = <<>>
               \/ heap[top(stack)].type \notin ContainerTypes
            /\ ev'.jdata = nullptr
            /\ UNCHANGED <<root, stack, tempKey, heap>> ]_vars

\* A start map or start array was rejected with a scalar on the stack top.
C18_Witness ==
    /\ ev.cb \in {"start_map", "start_array"}
    /\ ev.ret = 0
    /\ stack # <<>>
    /\ heap[top(stack)].type \notin ContainerTypes

\* ------------------------------------------------------------------ C19
\* C19: the frame of the events that do not insert.  A map key event changes
\* only the key buffer: the root, the stack and the tree stay as they were.
\* An end map or end array event on a non-empty stack changes only the
\* stack, removing its top pointer: the root, the key buffer and the tree
\* stay as they were.
C19_FrameOfKeyAndEnd ==
    [][ /\ (CallbackStep /\ ev'.cb = "map_key") =>
              UNCHANGED <<root, stack, heap>>
        /\ (CallbackStep /\ ev'.cb \in {"end_map", "end_array"}
              /\ stack # <<>>) =>
              /\ stack' = pop(stack)
              /\ UNCHANGED <<root, tempKey, heap>> ]_vars

\* An end event has closed the root container of a tree of two nodes while
\* the key buffer held a key.
C19_Witness ==
    /\ ev.cb \in {"end_map", "end_array"}
    /\ begun = 0
    /\ stack = <<>>
    /\ Len(heap) = 2
    /\ tempKey = "a"

====
